---- MODULE Spec2Model ----
(***************************************************************************)
(* Model of nt_summary_stats (src/src/core.cpp): the single-sensor kernel  *)
(* compute_summary_stats and the batch driver compute_summary_stats_batch. *)
(*                                                                         *)
(* Representation of double values.  Times and charges are drawn from      *)
(* small integers, on which double arithmetic (+, *, comparison) is exact. *)
(* The two quotients of the kernel are kept as reduced fractions           *)
(* <<numerator, denominator>>: charge_weighted_mean_time is the fraction   *)
(* weighted_sum / total_charge, and charge_weighted_std_time is kept as    *)
(* the fraction under the square root (sqrt is injective on the            *)
(* non-negative values that occur, so two results are equal exactly when   *)
(* these fractions are).  A statistics vector is a 9-tuple, position k+1   *)
(* of the model being index k of the std::array.                           *)
(*                                                                         *)
(* Charges are non-negative throughout: with a negative charge the         *)
(* cumulative sequence handed to std::upper_bound is no longer partitioned *)
(* and the search has no defined result.                                   *)
(***************************************************************************)
EXTENDS Integers, Sequences, FiniteSets, TLC

\* ------------------------------------------------------------------ bounds
MaxLen == 3          \* longest times / charges vector of a direct call
MaxCharge == 2       \* largest charge of a direct call
MaxSensors == 2      \* longest times_list / charges_list
MaxBatchLen == 2     \* longest per-sensor vector inside a batch

\* Pulse times of a direct call, chosen around the two window cutoffs: from
\* a first pulse at 1, 101 and 501 lie exactly on the cutoffs; from a first
\* pulse at 0 they lie just outside the windows.
Times == {0, 1, 101, 501}
Charges == 0..MaxCharge
\* Per-sensor values of a batch call.
BatchTimes == {0, 101}
BatchCharges == {1}

SeqsUpTo(S, n) == UNION {[1..k -> S] : k \in 0..n}

VARIABLES
    entry,           \* which entry point the caller invoked: "single" | "batch"
    pc,              \* "call" | "loop" | "done"
    times, charges,  \* arguments of the direct kernel call
    times_sorted, charges_sorted,   \* the kernel's local sorted copies (direct call)
    times_list, charges_list,       \* arguments of the batch call
    i,               \* loop variable of the batch driver
    results,         \* the batch driver's local result vector
    kernel_calls,    \* number of kernel invocations made so far
    ret,             \* value handed back to the caller (<<>> when none)
    err              \* exception that reached the caller

vars == <<entry, pc, times, charges, times_sorted, charges_sorted,
          times_list, charges_list, i, results, kernel_calls, ret, err>>

\* ----------------------------------------------------------- arithmetic
Abs(x) == IF x < 0 THEN -x ELSE x

RECURSIVE GCD(_, _)
GCD(a, b) == IF b = 0 THEN a ELSE GCD(b, a % b)

\* The quotient n / d of two doubles (d > 0), as a reduced fraction.
Div(n, d) == LET g == GCD(Abs(n), d) IN <<n \div g, d \div g>>

\* std::to_string of a size_t: its decimal digits.
DigitChars == <<"0", "1", "2", "3", "4", "5", "6", "7", "8", "9">>

RECURSIVE to_string(_)
to_string(n) == IF n < 10 THEN <<DigitChars[n + 1]>>
                ELSE to_string(n \div 10) \o <<DigitChars[(n % 10) + 1]>>

NoError == [type |-> "none", what |-> <<>>]
invalid_argument(w) == [type |-> "invalid_argument", what |-> w]

\* ------------------------------------------------------ <algorithm> pieces
\* std::accumulate(first, last, 0.0): left-to-right sum.
RECURSIVE accumulate(_)
accumulate(s) == IF s = <<>> THEN 0
                 ELSE accumulate(SubSeq(s, 1, Len(s) - 1)) + s[Len(s)]

\* std::partial_sum: out[k] = s[1] + ... + s[k].
partial_sum(s) == [k \in 1..Len(s) |-> accumulate(SubSeq(s, 1, k))]

\* std::is_sorted: no element is smaller than its predecessor.
is_sorted(s) == \A k \in 1..(Len(s) - 1) : ~(s[k + 1] < s[k])

\* std::upper_bound as the library's binary search over [first, first+len),
\* 0-based; the searched value is the fraction num/den, so
\* "val < *middle" is num < den * s[middle].  Returns the 0-based position.
RECURSIVE upper_bound_from(_, _, _, _, _)
upper_bound_from(s, num, den, first, len) ==
    IF len <= 0 THEN first
    ELSE LET half == len \div 2
             middle == first + half
         IN IF num < den * s[middle + 1]
            THEN upper_bound_from(s, num, den, first, half)
            ELSE upper_bound_from(s, num, den, middle + 1, len - half - 1)

\* Variant: the search of std::lower_bound ("*middle < val" moves right).
RECURSIVE lower_bound_from(_, _, _, _, _)
lower_bound_from(s, num, den, first, len) ==
    IF len <= 0 THEN first
    ELSE LET half == len \div 2
             middle == first + half
         IN IF den * s[middle + 1] < num
            THEN lower_bound_from(s, num, den, middle + 1, len - half - 1)
            ELSE lower_bound_from(s, num, den, first, half)

upper_bound_as_lower_bound(s, num, den) == lower_bound_from(s, num, den, 0, Len(s))

upper_bound(s, num, den) == upper_bound_from(s, num, den, 0, Len(s))

Min(a, b) == IF a < b THEN a ELSE b

\* std::sort of the index vector by times[i1] < times[i2]: the sort is not
\* stable, so any index order that leaves the times non-decreasing may result.
SortedIndices(t) ==
    {p \in Permutations(1..Len(t)) :
        \A k \in 1..(Len(t) - 1) : ~(t[p[k + 1]] < t[p[k]])}

\* The index orders the kernel may end up using: the identity on the fast
\* path, the outcome of std::sort otherwise.
IndexOrders(t) ==
    IF is_sorted(t) THEN {[k \in 1..Len(t) |-> k]} ELSE SortedIndices(t)

Gather(s, p) == [k \in 1..Len(p) |-> s[p[k]]]

\* ------------------------------------------------------------- the kernel
empty_stats == <<0, 0, 0, 0, 0, 0, 0, <<0, 1>>, <<0, 1>>>>

\* Sum of charges_sorted[0 .. idx-1] (the loops of lines 77-83).
PrefixCharge(cs, idx) == accumulate(SubSeq(cs, 1, idx))

\* Variant: the window search stops before the pulses at the cutoff itself.
WindowIndex_exclusive(ts, width) == lower_bound_from(ts, ts[1] + width, 1, 0, Len(ts))

\* Lines 63-71: 0-based position of the first pulse after the window
\* [first_pulse_time, first_pulse_time + width].
WindowIndex(ts, width) == upper_bound(ts, ts[1] + width, 1)

\* Variant: the 50% threshold mistyped as 0.05.
charge_50_percent_small(total_charge) == <<total_charge, 20>>

\* Lines 89-90: the thresholds 0.2 * total_charge and 0.5 * total_charge,
\* as the fractions total_charge / 5 and total_charge / 2.
charge_20_percent(total_charge) == <<total_charge, 5>>
charge_50_percent(total_charge) == <<total_charge, 2>>

\* Variant: the index found by the search is used one position early.
PercentileIndex_early(cumulative_charge, threshold) ==
    LET idx == upper_bound(cumulative_charge, threshold[1], threshold[2])
    IN Min(IF idx > 0 THEN idx - 1 ELSE 0, Len(cumulative_charge) - 1)

\* Lines 93-102: the clamped 0-based index of the percentile pulse.
PercentileIndex(cumulative_charge, threshold) ==
    Min(upper_bound(cumulative_charge, threshold[1], threshold[2]),
        Len(cumulative_charge) - 1)

\* Lines 57-136: the nine statistics of an already sorted, non-empty pulse
\* sequence.
SortedStats(ts, cs) ==
    LET total_charge == accumulate(cs)
        first_pulse_time == ts[1]
        last_pulse_time == ts[Len(ts)]
        idx_100ns == WindowIndex(ts, 100)
        idx_500ns == WindowIndex(ts, 500)
        charge_100ns == PrefixCharge(cs, idx_100ns)
        charge_500ns == PrefixCharge(cs, idx_500ns)
        cumulative_charge == partial_sum(cs)
        idx_20 == PercentileIndex(cumulative_charge, charge_20_percent(total_charge))
        idx_50 == PercentileIndex(cumulative_charge, charge_50_percent(total_charge))
        charge_20_percent_time == ts[idx_20 + 1]
        charge_50_percent_time == ts[idx_50 + 1]
        weighted_sum == accumulate([k \in 1..Len(ts) |-> ts[k] * cs[k]])
        mean == IF total_charge > 0 THEN Div(weighted_sum, total_charge)
                ELSE <<0, 1>>
        \* time_diff = ts[k] - mean = (ts[k] * mean[2] - mean[1]) / mean[2]
        variance_num == accumulate([k \in 1..Len(ts) |->
                            cs[k] * (ts[k] * mean[2] - mean[1])
                                  * (ts[k] * mean[2] - mean[1])])
        std == IF total_charge > 0
               THEN Div(variance_num, mean[2] * mean[2] * total_charge)
               ELSE <<0, 1>>
    IN <<total_charge, charge_100ns, charge_500ns, first_pulse_time,
         last_pulse_time, charge_20_percent_time, charge_50_percent_time,
         mean, std>>

\* Variant: the kernel's message without the two sizes.
KernelWhat_fixed(t, c) == <<"times and charges must have the same length">>

KernelWhat(t, c) ==
    <<"times and charges must have the same length, got ">>
        \o to_string(Len(t)) \o <<" and ">> \o to_string(Len(c))

Take(s, n) == SubSeq(s, 1, n)

\* Variant: the length check is made before the emptiness check.
compute_summary_stats_length_first(t, c) ==
    IF Len(t) # Len(c)
    THEN {[ret |-> <<>>, err |-> invalid_argument(KernelWhat(t, c)),
           ts |-> <<>>, cs |-> <<>>]}
    ELSE IF t = <<>>
    THEN {[ret |-> empty_stats, err |-> NoError, ts |-> <<>>, cs |-> <<>>]}
    ELSE {[ret |-> SortedStats(Gather(t, p), Gather(c, p)), err |-> NoError,
           ts |-> Gather(t, p), cs |-> Gather(c, p)] : p \in IndexOrders(t)}

\* Variant: a length mismatch is silently truncated to the shorter length.
compute_summary_stats_truncating(t, c) ==
    LET n == Min(Len(t), Len(c))
    IN IF n = 0
       THEN {[ret |-> empty_stats, err |-> NoError, ts |-> <<>>, cs |-> <<>>]}
       ELSE {[ret |-> SortedStats(Gather(Take(t, n), p), Gather(Take(c, n), p)),
              err |-> NoError,
              ts |-> Gather(Take(t, n), p), cs |-> Gather(Take(c, n), p)]
                : p \in IndexOrders(Take(t, n))}

\* Variant: the sorting path reorders the times but leaves the charges in
\* input order.
compute_summary_stats_charges_unsorted(t, c) ==
    IF t = <<>>
    THEN {[ret |-> empty_stats, err |-> NoError, ts |-> <<>>, cs |-> <<>>]}
    ELSE IF Len(t) # Len(c)
    THEN {[ret |-> <<>>, err |-> invalid_argument(KernelWhat(t, c)),
           ts |-> <<>>, cs |-> <<>>]}
    ELSE {[ret |-> SortedStats(Gather(t, p), c), err |-> NoError,
           ts |-> Gather(t, p), cs |-> c] : p \in IndexOrders(t)}

\* compute_summary_stats(t, c): the set of outcomes of one call.  An outcome
\* records the returned vector or the exception, and the sorted copies the
\* call built.
compute_summary_stats(t, c) ==
    IF t = <<>>
    THEN {[ret |-> empty_stats, err |-> NoError, ts |-> <<>>, cs |-> <<>>]}
    ELSE IF Len(t) # Len(c)
    THEN {[ret |-> <<>>, err |-> invalid_argument(KernelWhat(t, c)),
           ts |-> <<>>, cs |-> <<>>]}
    ELSE {[ret |-> SortedStats(Gather(t, p), Gather(c, p)), err |-> NoError,
           ts |-> Gather(t, p), cs |-> Gather(c, p)] : p \in IndexOrders(t)}

BatchWhat == <<"times_list and charges_list must have the same length">>

\* ------------------------------------------------------------------- Init
Init ==
    /\ entry \in {"single", "batch"}
    /\ pc = "call"
    /\ IF entry = "single"
       THEN /\ times \in SeqsUpTo(Times, MaxLen)
            /\ charges \in SeqsUpTo(Charges, MaxLen)
            /\ times_list = <<>>
            /\ charges_list = <<>>
       ELSE /\ times = <<>>
            /\ charges = <<>>
            /\ times_list \in SeqsUpTo(SeqsUpTo(BatchTimes, MaxBatchLen), MaxSensors)
            /\ charges_list \in SeqsUpTo(SeqsUpTo(BatchCharges, MaxBatchLen), MaxSensors)
    /\ times_sorted = <<>>
    /\ charges_sorted = <<>>
    /\ i = 0
    /\ results = <<>>
    /\ kernel_calls = 0
    /\ ret = <<>>
    /\ err = NoError

\* ---------------------------------------------------------------- actions
\* A direct call of compute_summary_stats(times, charges).
CallKernel ==
    /\ entry = "single"
    /\ pc = "call"
    /\ \E o \in compute_summary_stats(times, charges) :
          /\ ret' = o.ret
          /\ err' = o.err
          /\ times_sorted' = o.ts
          /\ charges_sorted' = o.cs
    /\ kernel_calls' = kernel_calls + 1
    /\ pc' = "done"
    /\ UNCHANGED <<entry, times, charges, times_list, charges_list, i, results>>

\* compute_summary_stats_batch, lines 143-145: the outer-length check throws.
BatchLengthMismatch ==
    /\ entry = "batch"
    /\ pc = "call"
    /\ Len(times_list) # Len(charges_list)
    /\ err' = invalid_argument(BatchWhat)
    /\ pc' = "done"
    /\ UNCHANGED <<entry, times, charges, times_sorted, charges_sorted,
                   times_list, charges_list, i, results, kernel_calls, ret>>

\* Lines 143-150: the check passes, results is created empty, i = 0.
BatchEnter ==
    /\ entry = "batch"
    /\ pc = "call"
    /\ Len(times_list) = Len(charges_list)
    /\ results' = <<>>
    /\ i' = 0
    /\ pc' = "loop"
    /\ UNCHANGED <<entry, times, charges, times_sorted, charges_sorted,
                   times_list, charges_list, kernel_calls, ret, err>>

\* Variant: each new row is inserted at the front of results.
BatchIter_prepend ==
    /\ pc = "loop"
    /\ i < Len(times_list)
    /\ kernel_calls' = kernel_calls + 1
    /\ \E o \in compute_summary_stats(times_list[i + 1], charges_list[i + 1]) :
          IF o.err = NoError
          THEN /\ results' = <<o.ret>> \o results
               /\ i' = i + 1
               /\ UNCHANGED <<pc, err>>
          ELSE /\ results' = <<>>
               /\ err' = o.err
               /\ pc' = "done"
               /\ UNCHANGED i
    /\ UNCHANGED <<entry, times, charges, times_sorted, charges_sorted,
                   times_list, charges_list, ret>>

\* Variant: a failing sensor is caught inside the loop and skipped, the
\* rows of the other sensors are still returned.
BatchIter_isolating ==
    /\ pc = "loop"
    /\ i < Len(times_list)
    /\ kernel_calls' = kernel_calls + 1
    /\ \E o \in compute_summary_stats(times_list[i + 1], charges_list[i + 1]) :
          /\ results' = IF o.err = NoError THEN Append(results, o.ret) ELSE results
          /\ i' = i + 1
          /\ UNCHANGED <<pc, err>>
    /\ UNCHANGED <<entry, times, charges, times_sorted, charges_sorted,
                   times_list, charges_list, ret>>

\* Lines 150-152: one iteration.  The kernel either returns a row, which is
\* pushed, or throws: the exception leaves the function, results is
\* destroyed by the unwinding and nothing is returned.
BatchIter ==
    /\ pc = "loop"
    /\ i < Len(times_list)
    /\ kernel_calls' = kernel_calls + 1
    /\ \E o \in compute_summary_stats(times_list[i + 1], charges_list[i + 1]) :
          IF o.err = NoError
          THEN /\ results' = Append(results, o.ret)
               /\ i' = i + 1
               /\ UNCHANGED <<pc, err>>
          ELSE /\ results' = <<>>
               /\ err' = o.err
               /\ pc' = "done"
               /\ UNCHANGED i
    /\ UNCHANGED <<entry, times, charges, times_sorted, charges_sorted,
                   times_list, charges_list, ret>>

\* Line 154: the loop is over, results is returned.
BatchReturn ==
    /\ pc = "loop"
    /\ ~(i < Len(times_list))
    /\ ret' = results
    /\ pc' = "done"
    /\ UNCHANGED <<entry, times, charges, times_sorted, charges_sorted,
                   times_list, charges_list, i, results, kernel_calls, err>>

Next == CallKernel \/ BatchLengthMismatch \/ BatchEnter \/ BatchIter \/ BatchReturn

Spec == Init /\ [][Next]_vars

\* --------------------------------------------------------- vocabulary
SingleDone == entry = "single" /\ pc = "done"
BatchDone == entry = "batch" /\ pc = "done"
Returned == pc = "done" /\ err = NoError
Thrown == pc = "done" /\ err.type = "invalid_argument"

\* The vectors a call compute_summary_stats(t, c) can return.
KernelRets(t, c) ==
    {o.ret : o \in {x \in compute_summary_stats(t, c) : x.err = NoError}}
KernelFails(t, c) == \E o \in compute_summary_stats(t, c) : o.err # NoError

\* w contains the sequence sub as a contiguous part.
Contains(w, sub) ==
    \E k \in 0..(Len(w) - Len(sub)) : SubSeq(w, k + 1, k + Len(sub)) = sub

\* The message w names the sizes a and b, in this order.
CarriesLengths(w, a, b) ==
    \E k \in 1..Len(w) :
        /\ Contains(SubSeq(w, 1, k), to_string(a))
        /\ Contains(SubSeq(w, k + 1, Len(w)), to_string(b))

NamesNoLength(w) == \A k \in 1..Len(w) : \A d \in 1..10 : w[k] # DigitChars[d]

\* The error was raised by the batch driver's own outer-length check.
BatchSiteError == BatchDone /\ Thrown /\ Len(times_list) # Len(charges_list)
\* The error was raised by the kernel for sensor i of a batch.
PropagatedError == BatchDone /\ Thrown /\ Len(times_list) = Len(charges_list)

\* Pairwise-distinct times.
UniqueTimes(t) == \A j, k \in 1..Len(t) : j # k => t[j] # t[k]

MinOf(t) == CHOOSE m \in {t[k] : k \in 1..Len(t)} : \A k \in 1..Len(t) : m <= t[k]

\* Sum of c[k] over the pulses k of the unsorted input with t[k] <= cutoff.
RECURSIVE ChargeUpTo(_, _, _)
ChargeUpTo(t, c, cutoff) ==
    IF t = <<>> THEN 0
    ELSE (IF t[1] <= cutoff THEN c[1] ELSE 0) + ChargeUpTo(Tail(t), Tail(c), cutoff)

\* Running cumulative charge of the first k pulses of the sorted sequence.
RECURSIVE Cumulative(_, _)
Cumulative(cs, k) == IF k = 0 THEN 0 ELSE Cumulative(cs, k - 1) + cs[k]

\* k (1-based) is the first position of the sorted sequence whose cumulative
\* charge strictly exceeds total / den.
FirstExceeding(cs, k, den) ==
    /\ k \in 1..Len(cs)
    /\ den * Cumulative(cs, k) > Cumulative(cs, Len(cs))
    /\ \A j \in 1..(k - 1) : den * Cumulative(cs, j) <= Cumulative(cs, Len(cs))

\* A direct call on a non-empty valid input has returned.
ValidDone == SingleDone /\ Returned /\ times # <<>>

ZeroVector == <<0, 0, 0, 0, 0, 0, 0, <<0, 1>>, <<0, 1>>>>

TypeOK ==
    /\ entry \in {"single", "batch"}
    /\ pc \in {"call", "loop", "done"}
    /\ i \in 0..MaxSensors
    /\ kernel_calls \in 0..MaxSensors
    /\ err.type \in {"none", "invalid_argument"}

\* ------------------------------------------------------------------ C1
\* C1: when compute_summary_stats_batch succeeds on N sensors, its result
\* has exactly N rows and row k is what compute_summary_stats returns for the
\* k-th pair alone, in input order.
BatchConsistency ==
    (BatchDone /\ Returned) =>
        /\ Len(ret) = Len(times_list)
        /\ \A k \in 1..Len(times_list) :
              /\ Len(ret[k]) = 9
              /\ ret[k] \in KernelRets(times_list[k], charges_list[k])

\* A successful batch of two sensors whose rows differ.
BatchConsistencyWitness ==
    /\ BatchDone /\ Returned
    /\ Len(times_list) = 2
    /\ ret[1] # ret[2]
    /\ ret[1] # ZeroVector /\ ret[2] # ZeroVector

LengthMismatchThrows ==
    (SingleDone /\ times # <<>> /\ Len(times) # Len(charges)) =>
        /\ err.type = "invalid_argument"
        /\ ret = <<>>

\* A mismatch in which both vectors are non-empty, so that a truncated
\* prefix would exist, has been rejected.
LengthMismatchWitness ==
    /\ SingleDone /\ Thrown
    /\ Len(times) > 0 /\ Len(charges) > 0 /\ Len(times) # Len(charges)

\* ------------------------------------------------------------------ C4
\* C4: the batch call has no partial success.  An outer length mismatch
\* throws before any kernel invocation; a kernel failure for some sensor
\* makes the whole call throw; a throwing call hands no row to the caller.
NoPartialSuccess ==
    BatchDone =>
        /\ (Len(times_list) # Len(charges_list)) =>
              (Thrown /\ kernel_calls = 0 /\ ret = <<>>)
        /\ (/\ Len(times_list) = Len(charges_list)
            /\ \E k \in 1..Len(times_list) :
                  KernelFails(times_list[k], charges_list[k])) =>
              (Thrown /\ ret = <<>>)
        /\ Thrown => (ret = <<>> /\ results = <<>>)

\* The second sensor failed after the first had been computed.
NoPartialSuccessWitness ==
    /\ BatchDone /\ Thrown
    /\ Len(times_list) = Len(charges_list)
    /\ i = 1 /\ kernel_calls = 2
    /\ KernelRets(times_list[1], charges_list[1]) # {ZeroVector}

\* ------------------------------------------------------------------ C5
\* C5 as stated: every invalid_argument error, at the kernel's check and
\* at the batch driver's outer check alike, names the two lengths observed.
EveryErrorCarriesLengths ==
    /\ (SingleDone /\ Thrown) =>
          CarriesLengths(err.what, Len(times), Len(charges))
    /\ PropagatedError =>
          CarriesLengths(err.what, Len(times_list[i + 1]), Len(charges_list[i + 1]))
    /\ BatchSiteError =>
          CarriesLengths(err.what, Len(times_list), Len(charges_list))

\* C5 amended: the kernel's error names the two lengths, also when it
\* reaches the caller through the batch driver; the batch driver's own
\* error is a fixed message that names no length.
KernelErrorCarriesLengths ==
    /\ (SingleDone /\ Thrown) =>
          CarriesLengths(err.what, Len(times), Len(charges))
    /\ PropagatedError =>
          CarriesLengths(err.what, Len(times_list[i + 1]), Len(charges_list[i + 1]))
    /\ BatchSiteError =>
          (err.what = BatchWhat /\ NamesNoLength(err.what))

\* A kernel error with two different non-zero lengths has been raised.
KernelErrorWitness ==
    /\ SingleDone /\ Thrown
    /\ Len(times) = 2 /\ Len(charges) = 3
    /\ Contains(err.what, <<"2", " and ", "3">>)

\* ------------------------------------------------------------------ C6
\* C6: for equal-length inputs with pairwise-distinct times, the result
\* on any ordering of the pulses is the result on the sorted-by-time
\* ordering of the same pulses.
SortInvariance ==
    (ValidDone /\ UniqueTimes(times)) =>
        \A p \in SortedIndices(times) :
            KernelRets(Gather(times, p), Gather(charges, p)) = {ret}

\* An unsorted input with distinct times and distinct charges was processed.
SortInvarianceWitness ==
    /\ ValidDone /\ UniqueTimes(times)
    /\ Len(times) = 3
    /\ ~is_sorted(times)
    /\ charges[1] # charges[2] /\ charges[2] # charges[3] /\ charges[1] # charges[3]
    /\ times_sorted # times

\* ------------------------------------------------------------------ C7
\* C7: charge_100ns is the sum of the charges of exactly the pulses with
\* time <= first_pulse_time + 100 and charge_500ns the same with + 500,
\* first_pulse_time being the minimum time; pulses at the cutoff count.
ClosedWindows ==
    ValidDone =>
        /\ ret[4] = MinOf(times)
        /\ ret[2] = ChargeUpTo(times, charges, MinOf(times) + 100)
        /\ ret[3] = ChargeUpTo(times, charges, MinOf(times) + 500)

\* Two charged pulses tied at exactly first_pulse_time + 100.
ClosedWindowsWitness ==
    /\ ValidDone
    /\ \E j, k \in 1..Len(times) :
          /\ j # k
          /\ times[j] = MinOf(times) + 100 /\ times[k] = MinOf(times) + 100
          /\ charges[j] > 0 /\ charges[k] > 0
    /\ ret[2] = ret[1]

\* ------------------------------------------------------------------ C8
\* C8: with total_charge > 0 (charges non-negative),
\* charge_20_percent_time is the time of the first pulse of the sorted
\* sequence whose cumulative charge strictly exceeds 20% of total_charge,
\* charge_50_percent_time the same for 50%; that pulse exists in 0..n-1.
PercentileTimes ==
    (ValidDone /\ ret[1] > 0) =>
        /\ \E k \in 1..Len(times_sorted) :
              FirstExceeding(charges_sorted, k, 5) /\ ret[6] = times_sorted[k]
        /\ \E k \in 1..Len(times_sorted) :
              FirstExceeding(charges_sorted, k, 2) /\ ret[7] = times_sorted[k]

\* The first pulse's cumulative charge equals 20% of total_charge exactly,
\* at three distinct times given out of order: the second pulse is selected.
PercentileTimesWitness ==
    /\ ValidDone /\ ret[1] > 0
    /\ Len(times_sorted) = 3 /\ UniqueTimes(times) /\ ~is_sorted(times)
    /\ 5 * Cumulative(charges_sorted, 1) = ret[1]
    /\ ret[6] = times_sorted[2]

\* ------------------------------------------------------------------ C9
\* C9: with total_charge > 0 (charges non-negative),
\* charge_20_percent_time <= charge_50_percent_time.
PercentileMonotonicity ==
    (ValidDone /\ ret[1] > 0) => ret[6] <= ret[7]

\* The two percentile times differ.
PercentileMonotonicityWitness ==
    ValidDone /\ ret[1] > 0 /\ ret[6] < ret[7]

\* ----------------------------------------------------------------- C10
\* C10 as stated: with total_charge = 0 the upper-bound search over the
\* cumulative charges returns index 0 and both percentile times are the
\* sorted time at index 0.
ZeroChargePercentileAtFirst ==
    (ValidDone /\ ret[1] = 0) =>
        /\ upper_bound(partial_sum(charges_sorted), 0, 5) = 0
        /\ ret[6] = times_sorted[1]
        /\ ret[7] = times_sorted[1]

\* C10 amended: with total_charge = 0 the upper-bound search runs past the
\* end (returns n), the index is clamped to n-1, and both percentile times
\* are the sorted time at index n-1, the last pulse time.
ZeroChargePercentileAtLast ==
    (ValidDone /\ ret[1] = 0) =>
        /\ upper_bound(partial_sum(charges_sorted), 0, 5) = Len(times_sorted)
        /\ upper_bound(partial_sum(charges_sorted), 0, 2) = Len(times_sorted)
        /\ ret[6] = times_sorted[Len(times_sorted)]
        /\ ret[7] = times_sorted[Len(times_sorted)]
        /\ ret[6] = ret[5]

\* All charges zero, first and last pulse at different times.
ZeroChargeWitness ==
    /\ ValidDone /\ ret[1] = 0
    /\ Len(times) = 3
    /\ ret[4] < ret[5]
    /\ ret[6] = ret[5]
====
